---- MODULE Spec2Model ----
(***************************************************************************)
(* ircstatus: relay of input lines to an IRC channel.                      *)
(*                                                                         *)
(* Two programs are modelled.                                              *)
(*   Spec     the current program: main/mymain/handleEvent of              *)
(*            src/ircstatus.go (lines 452-866) with makePipe of            *)
(*            src/makepipe.go.  One event loop, one pipe-reading           *)
(*            goroutine, the minimalirc library as the Transport.          *)
(*   FairSpec Spec with the fairness the Go scheduler gives.               *)
(*   SpecOld  the earlier program of src/ircstatus.go.old: mymain with the *)
(*            reader, sender and waiter goroutines and setNick, through    *)
(*            MaxGenOld connection attempts, without -nums and with the    *)
(*            identify flags.                                              *)
(*   SpecOldFirst  the earlier program from "Open the pipe" through its    *)
(*            first connection attempt, under every setting of -pipe, of   *)
(*            -nums and of the identify flags.                             *)
(*   FairSpecOld, FairSpecOldFirst  SpecOld and SpecOldFirst with the      *)
(*            fairness the Go scheduler gives.                             *)
(*   SpecShort  ArrayOfShortStrings on its own, on every string of at most *)
(*            MaxLen characters and every limit up to MaxLimit.            *)
(*   SpecFlush  one call of flushPipe of src/makepipe.go with the          *)
(*            pipe-filler and the other writers of the pipe; FairSpecFlush *)
(*            adds the fairness of flushPipe and of the pipe-filler.       *)
(* The specifications share InitMain; each leaves the variables of the     *)
(* others unchanged.                                                       *)
(***************************************************************************)
EXTENDS Integers, Sequences, FiniteSets, TLC

(***************************************************************************)
(* Bounds of the model.                                                    *)
(***************************************************************************)
\* irc.PrivmsgSize(""): the payload budget of one PRIVMSG, in bytes
MaxPayload == 2
\* connection attempts counted before the counter saturates
MaxGen == 2
\* generations the earlier program starts
MaxGenOld == 2
\* values rand.Int63 returns
MaxRand == 1

(***************************************************************************)
(* Strings.  A string is a sequence of runes; a rune is named by a string  *)
(* and has a UTF-8 length in bytes.                                        *)
(***************************************************************************)
\* "xff" is a byte that is no valid UTF-8 on its own; "fffd" is U+FFFD, the
\* rune the conversion to []rune gives for it
Runes == {"a", "b", "e2", "w3", "?", "xff", "fffd"}

RuneLen(r) == CASE r = "e2" -> 2
                [] r = "w3" -> 3
                [] r = "fffd" -> 3
                [] OTHER -> 1

RECURSIVE ByteLen(_)
ByteLen(s) == IF s = <<>> THEN 0 ELSE RuneLen(Head(s)) + ByteLen(Tail(s))

\* the lines the input source can produce
Lines == {<<"a">>, <<"a", "e2", "b">>}

\* the lines the fifo of the earlier program can produce
OldLines == {<<"a", " ">>}

\* errors a read of the input source can end with
PipeErrs == {"EOF", "EIO"}

(***************************************************************************)
(* ArrayOfShortStrings splits s into strings of at most l bytes, keeping   *)
(* runes together.                                                         *)
(***************************************************************************)
\* r := []rune(s)
ToRunes(s) == [i \in 1..Len(s) |-> IF s[i] = "xff" THEN "fffd" ELSE s[i]]

\* a rune larger than the string size is kept as it is
Fit_keep(c, l) == c

\* if rune is larger than the string size, replace with ?
Fit(c, l) == IF RuneLen(c) > l THEN "?" ELSE c

RECURSIVE ShortLoop(_, _, _, _, _)
ShortLoop(r, i, w, o, l) ==
    IF i > Len(r) THEN Append(o, w)
    ELSE LET ri == Fit(r[i], l)
         IN  IF ByteLen(w) + RuneLen(ri) > l
             THEN ShortLoop(r, i + 1, <<ri>>, Append(o, w), l)
             ELSE ShortLoop(r, i + 1, Append(w, ri), o, l)

ArrayOfShortStrings(s, l) ==
    IF ByteLen(s) <= l THEN <<s>>
    ELSE ShortLoop(ToRunes(s), 1, <<>>, <<>>, l)

(***************************************************************************)
(* Lines of the server, by the pattern they match: PING, the 353 member    *)
(* list (re.ChannelJoined), 433 nickname in use (re.NickInUse), other.     *)
(***************************************************************************)
ServerLines == {"PING", "353", "433", "OTHER"}

\* a pattern that also matches lines that are no member list
ChannelJoined_loose(l) == l \in {"353", "OTHER"}

ChannelJoined(l) == l = "353"

NickInUse(l) == l = "433"

(***************************************************************************)
(* State of the current program.                                           *)
(***************************************************************************)
VARIABLES
    gc_pipe,    \* -pipe: "-" (stdin), "nick" or "path"
    gc_nums,    \* -nums: append random numbers to the nick
    gc_ident,   \* -idnick and -idpass are both set
    pc,         \* where main/mymain stand
    newIRC,     \* mymain: a new IRC connection is needed
    newPipe,    \* mymain: a new pipe is needed
    ircReady,   \* mymain: the channel is joined, messages may be sent
    txbuf,      \* mymain: <<>> (nil) or <<line>>, the line being sent
    irc,        \* the global *minimalirc.IRC
    pipe,       \* mymain: the *Pipe
    pipeG,      \* the goroutine of makePipe that reads the source
    rempname,   \* global name of the pipe to remove, "" for none
    fifo,       \* the pipe at the nick-derived path: "made" once the
                \* process has created it, "none" before and when removed
    ret,        \* value mymain returned (or -5 on interrupt)
    gen,        \* number of connection attempts, saturating at MaxGen
    out         \* what the last step of main/mymain did, in order

nvars == <<pc, newIRC, newPipe, ircReady, txbuf, irc, pipe, pipeG,
           rempname, fifo, ret, gen, out>>

(***************************************************************************)
(* State of the earlier program (src/ircstatus.go.old).                    *)
(***************************************************************************)
VARIABLES
    o_pc,       \* where mymain stands ("pipe": at "Open the pipe")
    o_fifo,     \* "made" while the fifo mymain made is there, or "none"
    o_hs,       \* mymain: what its setNick has done so far
    o_i,        \* mymain: reports received on dc in "Wait for goroutines"
    o_gen,      \* generations (openssl processes) started so far
    o_ret,      \* value mymain returned
    o_proc,     \* per generation: the openssl process, running or dead
    o_done,     \* per generation: done (killroutines) signalled
    o_ready,    \* per generation: the ready channel, open or closed
    o_rd,       \* per generation: the reader goroutine
    o_sn,       \* per generation: the sender goroutine
    o_wt,       \* per generation: the waiter goroutine
    o_txbuf,    \* gc.txbuf: <<>> (nil) or <<line>>
    o_nick,     \* *gc.nick: the numbers appended to gc.onick, in order
    o_rbuf,     \* gc.rbuf, a channel with a buffer of one line
    o_rp,       \* the readPipe goroutine
    o_out       \* what the last step did to a Transport or a timer

ovars == <<o_pc, o_fifo, o_hs, o_i, o_gen, o_ret, o_proc, o_done, o_ready, o_rd,
           o_sn, o_wt, o_txbuf, o_nick, o_rbuf, o_rp, o_out>>

gcvars == <<gc_pipe, gc_nums, gc_ident>>

(***************************************************************************)
(* One call of ArrayOfShortStrings and the loop of handleEvent over what   *)
(* it returns.                                                             *)
(***************************************************************************)
VARIABLES
    a_pc,       \* "idle", "call", "returned" or "sent"
    a_s,        \* the argument s
    a_l,        \* the argument l
    a_o,        \* the slice returned
    a_sent      \* what the loop over the slice has written

avars == <<a_pc, a_s, a_l, a_o, a_sent>>

(***************************************************************************)
(* One call of flushPipe of src/makepipe.go, with the pipe-filler it       *)
(* forks and the other processes that write to the pipe.                   *)
(***************************************************************************)
VARIABLES
    f_pc,       \* where flushPipe stands: "idle", "fork", "open", "opening",
                \* "loop", "close" or "returned"
    f_child,    \* the pipe-filler: "none", "started", "open", "wrote", "exited"
    f_ext,      \* another process has the pipe open for writing
    f_partner,  \* a writer has opened the pipe while os.Open waited
    f_data,     \* reads' worth of bytes in the pipe
    f_pn,       \* the file of os.Open: "none", "open" or "closed"
    f_out       \* what the last step of flushPipe did

fvars == <<f_pc, f_child, f_ext, f_partner, f_data, f_pn, f_out>>

\* flushPipe is not running
FlushIdle ==
    /\ f_pc = "idle"
    /\ f_child = "none"
    /\ f_ext = FALSE
    /\ f_partner = FALSE
    /\ f_data = 0
    /\ f_pn = "none"
    /\ f_out = <<>>

vars == <<gcvars, nvars, ovars, avars, fvars>>

NoIRC == [made |-> FALSE, connected |-> FALSE, RandomNumbers |-> FALSE]

NoPipe == [open |-> FALSE, Pname |-> ""]

NoReader == [st |-> "none", line |-> <<>>, err |-> ""]

\* one item of out
Did(op, arg, ok) == [op |-> op, arg |-> arg, ok |-> ok]

Has(tr, op) == \E i \in 1..Len(tr) : tr[i].op = op

HasFailed(tr, op) == \E i \in 1..Len(tr) : tr[i].op = op /\ ~tr[i].ok

Gens == 1..MaxGenOld

\* a goroutine: where it stands, the value it reports on dc, and what its
\* setNick has done so far (for a sender: the writes it has made since it
\* last slept)
Worker(at, n, hs) == [pc |-> at, n |-> n, hs |-> hs]

NoWorker == Worker("none", 0, <<>>)

InitMain ==
    /\ gc_pipe \in {"-", "nick", "path"}
    /\ gc_nums \in BOOLEAN
    /\ gc_ident \in BOOLEAN
    /\ pc = "config"
    /\ newIRC = TRUE
    /\ newPipe = TRUE
    /\ ircReady = FALSE
    /\ txbuf = <<>>
    /\ irc = NoIRC
    /\ pipe = NoPipe
    /\ pipeG = NoReader
    /\ rempname = ""
    /\ fifo = "none"
    /\ ret = 0
    /\ gen = 0
    /\ out = <<>>
    /\ o_pc \in {"pipe", "start"}
    /\ o_fifo = "none"
    /\ o_hs = <<>>
    /\ o_i = 0
    /\ o_gen = 0
    /\ o_ret = 0
    /\ o_proc = [g \in Gens |-> "none"]
    /\ o_done = [g \in Gens |-> FALSE]
    /\ o_ready = [g \in Gens |-> "open"]
    /\ o_rd = [g \in Gens |-> NoWorker]
    /\ o_sn = [g \in Gens |-> NoWorker]
    /\ o_wt = [g \in Gens |-> NoWorker]
    /\ o_txbuf = <<>>
    /\ o_nick = <<>>
    /\ o_rbuf = <<>>
    /\ o_rp = [st |-> "read", line |-> <<>>]
    /\ o_out = <<>>

Init ==
    /\ InitMain
    /\ o_pc = "start"
    /\ a_pc = "idle"
    /\ a_s = <<>>
    /\ a_l = MaxPayload
    /\ a_o = <<>>
    /\ a_sent = <<>>
    /\ FlushIdle

(***************************************************************************)
(* mymain, the main program loop.                                          *)
(***************************************************************************)
\* minimalirc.New: the IRC struct before Connect
NewIRC(nums) == [made |-> TRUE, connected |-> FALSE, RandomNumbers |-> nums]

\* the deferred function of mymain, run when mymain returns
DeferredQuit(i) == IF i.made THEN <<Did("QUIT", <<>>, TRUE)>> ELSE <<>>

\* the value mymain returns when the flags cannot be used: a port above
\* math.MaxUint16, or no password to be read for the services
ConfigRet(r) == CASE r = "port" -> -3
                  [] r = "password" -> -5
                  [] OTHER -> 0

\* mymain before its loop: the checks of the flags
mymain_config ==
    /\ pc = "config"
    /\ \E r \in {"ok", "port"} \cup (IF gc_ident THEN {} ELSE {"password"}) :
         IF r = "ok"
         THEN /\ pc' = "top"
              /\ out' = <<>>
              /\ UNCHANGED ret
         ELSE /\ pc' = "returned"
              /\ ret' = ConfigRet(r)
              /\ out' = <<Did("config", <<r>>, FALSE)>>
    /\ UNCHANGED <<gcvars, avars, fvars, ovars, newIRC, newPipe, ircReady, txbuf, irc,
                   pipe, pipeG, rempname, fifo, gen>>

\* "Get a channel for IRC messages": connect when newIRC is set; a failed
\* Connect sleeps gc.wait and starts the loop again
mymain_connect ==
    /\ pc = "top"
    /\ IF newIRC
       THEN \E ok \in BOOLEAN :
              /\ ircReady' = FALSE
              /\ irc' = [NewIRC(gc_nums) EXCEPT !.connected = ok]
              /\ gen' = IF gen < MaxGen THEN gen + 1 ELSE gen
              /\ IF ok
                 THEN /\ newIRC' = FALSE
                      /\ pc' = "pipe"
                      /\ out' = <<Did("Connect", <<>>, TRUE)>>
                 ELSE /\ newIRC' = TRUE
                      /\ pc' = "top"
                      /\ out' = <<Did("Connect", <<>>, FALSE),
                                  Did("sleep_wait", <<>>, TRUE)>>
       ELSE /\ pc' = "pipe"
            /\ out' = <<>>
            /\ UNCHANGED <<ircReady, irc, gen, newIRC>>
    /\ UNCHANGED <<gcvars, avars, fvars, ovars, newPipe, txbuf, pipe, pipeG, rempname, fifo, ret>>

\* makePipe: the name of the pipe, by -pipe
PipeName(pname) == CASE pname = "-" -> "-"
                     [] pname = "nick" -> "/tmp/nick"
                     [] OTHER -> pname

\* makePipe: the results it can have: stdin always opens; a pipe may fail to
\* be created, flushed or opened
MakePipeResults(pname) ==
    IF pname = "-" THEN {"ok"} ELSE {"ok", "create", "flush", "open"}

\* createPipe: the pipe at the nick-derived path after makePipe ended with
\* r; pre says that a pipe was there already, and then Mkfifo is not called
NewFifo(r, pre) ==
    IF gc_pipe = "nick" /\ r # "create" /\ ~pre THEN "made" ELSE fifo

\* a pipe opened at every pass of the loop once IRC is ready
NeedPipe_always == ircReady

\* ircReady && (nil == pipe || newPipe)
NeedPipe == ircReady /\ (~pipe.open \/ newPipe)

\* "Get a channel for the pipe when IRC is ready"
mymain_pipe ==
    /\ pc = "pipe"
    /\ IF NeedPipe
       THEN \E r \in MakePipeResults(gc_pipe), pre \in BOOLEAN :
              IF r = "ok"
              THEN /\ pipe' = [open |-> TRUE, Pname |-> PipeName(gc_pipe)]
                   /\ pipeG' = [st |-> "read", line |-> <<>>, err |-> ""]
                   /\ fifo' = NewFifo(r, pre)
                   /\ rempname' = IF gc_pipe = "nick"
                                  THEN PipeName(gc_pipe) ELSE rempname
                   /\ pc' = "txbuf"
                   /\ out' = <<Did("makePipe", <<>>, TRUE)>>
                   /\ UNCHANGED newPipe
              ELSE /\ pipe' = NoPipe
                   /\ newPipe' = TRUE
                   /\ pc' = "top"
                   /\ out' = <<Did("makePipe", <<r>>, FALSE),
                               Did("sleep_wait", <<>>, TRUE)>>
                   /\ UNCHANGED <<pipeG, rempname>>
                   /\ fifo' = NewFifo(r, pre)
       ELSE /\ pc' = "txbuf"
            /\ out' = <<>>
            /\ UNCHANGED <<pipe, pipeG, rempname, fifo, newPipe>>
    /\ UNCHANGED <<gcvars, avars, fvars, ovars, newIRC, ircReady, txbuf, irc, ret, gen>>

\* "Try to send txbuf before the select"
mymain_txbuf ==
    /\ pc = "txbuf"
    /\ IF txbuf # <<>>
       THEN \E ok \in BOOLEAN :
              /\ out' = <<Did("PRIVMSG", txbuf[1], ok)>>
              /\ newIRC' = TRUE
              /\ pc' = "top"
       ELSE /\ pc' = "select"
            /\ out' = <<>>
            /\ UNCHANGED newIRC
    /\ UNCHANGED <<gcvars, avars, fvars, ovars, newPipe, ircReady, txbuf, irc, pipe, pipeG,
                   rempname, fifo, ret, gen>>

\* mymain after handleEvent returned err: "" is nil
AfterEvent(err, tr, i) ==
    IF err = "EOF" /\ pipe.open /\ pipe.Pname = "-"
    THEN /\ ret' = 0
         /\ pc' = "returned"
         /\ out' = tr \o DeferredQuit(i)
    ELSE IF err # ""
    THEN /\ ret' = -1
         /\ pc' = "returned"
         /\ out' = tr \o DeferredQuit(i)
    ELSE /\ pc' = "top"
         /\ out' = tr
         /\ UNCHANGED ret

(***************************************************************************)
(* handleEvent: one event of the select.                                   *)
(***************************************************************************)
\* the loop over txarr: the writes before nfail succeed, write nfail fails
\* (nfail = 0: none fails)
RECURSIVE SendLoop(_, _, _)
SendLoop(txarr, i, nfail) ==
    IF i > Len(txarr) THEN <<>>
    ELSE IF i = nfail
    THEN <<Did("PRIVMSG", txarr[i], FALSE), Did("QUIT", <<>>, TRUE)>>
    ELSE <<Did("PRIVMSG", txarr[i], TRUE), Did("sleep_senddelay", <<>>, TRUE)>>
         \o SendLoop(txarr, i + 1, nfail)

\* the pipe channel offered whether or not the channel is joined
PipeChan_always == IF ~pipe.open THEN "nil" ELSE "R"

\* the pipe channel with the test of ircReady the wrong way round
PipeChan_negated == IF ircReady \/ ~pipe.open THEN "nil" ELSE "R"

\* the pipe channel of the select: nil until the channel is joined
PipeChan == IF ~ircReady \/ ~pipe.open THEN "nil" ELSE "R"

\* case l, ok := <-p
handleEvent_pipe ==
    /\ pc = "select"
    /\ PipeChan = "R"
    /\ pipeG.st \in {"sendLine", "closed"}
    /\ LET ok == pipeG.st = "sendLine"
           l == IF ok THEN pipeG.line ELSE <<>>
           perr == IF ok THEN "" ELSE pipeG.err
       IN  IF ~ok /\ pipe.Pname = "-" /\ perr = "EOF"
           THEN /\ newPipe' = FALSE
                /\ newIRC' = FALSE
                /\ AfterEvent("EOF", <<Did("recv_pipe", <<"closed">>, FALSE)>>,
                           irc)
                /\ UNCHANGED <<txbuf, pipeG>>
           ELSE \E nfail \in 0..Len(ArrayOfShortStrings(l, MaxPayload)) :
                  LET txarr == ArrayOfShortStrings(l, MaxPayload)
                      sent == SendLoop(txarr, 1, nfail)
                      err == IF nfail # 0 THEN "send" ELSE ""
                      tr == <<Did("recv_pipe", l, ok)>> \o sent \o
                            (IF err = ""
                             THEN <<Did("sleep_senddelay", <<>>, TRUE)>>
                             ELSE <<>>)
                  IN  /\ newPipe' = ~ok
                      /\ newIRC' = (nfail # 0)
                      /\ txbuf' = IF err = "" THEN <<>> ELSE <<l>>
                      /\ pipeG' = IF ok
                                  THEN [st |-> "read", line |-> <<>>,
                                        err |-> ""]
                                  ELSE pipeG
                      /\ AfterEvent(err, tr, irc)
    /\ UNCHANGED <<gcvars, avars, fvars, ovars, ircReady, irc, pipe, rempname, fifo, gen>>

\* irc.C found closed and nothing done about the connection
ClosedIRC_noQuit == <<Did("recv_irc", <<"closed">>, FALSE)>>

\* irc.C found closed: "Try to close the connection, for just in case"
ClosedIRC ==
    <<Did("recv_irc", <<"closed">>, FALSE), Did("QUIT", <<>>, TRUE)>>

\* newPipe left as mymain had it
NewPipeResult_kept == newPipe

\* the result newPipe of handleEvent where the pipe case has not set it
NewPipeResult == FALSE

\* ircReady as handleEvent returns it, had it not taken over iircReady
ReadyAfter_reset(l) == ChannelJoined(l)

\* ircReady = iircReady, and "Check if we've joined a channel"
ReadyAfter(l) == ircReady \/ ChannelJoined(l)

\* case l, ok := <-irc.C
handleEvent_irc ==
    /\ pc = "select"
    /\ \E l \in ServerLines \cup {"closed"} :
         IF l = "closed"
         THEN /\ newIRC' = TRUE
              /\ newPipe' = NewPipeResult
              /\ AfterEvent("", ClosedIRC, irc)
              /\ UNCHANGED <<ircReady, irc>>
         ELSE \E hsok \in BOOLEAN :
                LET hs == NickInUse(l)
                    err == IF hs /\ ~hsok THEN "handshake" ELSE ""
                IN  /\ ircReady' = ReadyAfter(l)
                    /\ irc' = IF hs THEN [irc EXCEPT !.RandomNumbers = TRUE]
                              ELSE irc
                    /\ newIRC' = (err # "")
                    /\ newPipe' = NewPipeResult
                    /\ AfterEvent(err,
                          <<Did("recv_irc", <<l>>, TRUE)>> \o
                          (IF hs THEN <<Did("Handshake", <<>>, hsok)>>
                           ELSE <<>>), irc)
    /\ UNCHANGED <<gcvars, avars, fvars, ovars, txbuf, pipe, pipeG, rempname, fifo, gen>>

(***************************************************************************)
(* The goroutine of makePipe: reads lines, hands them to p.r; on an error  *)
(* sends it on p.e, then closes p.r.  Both channels are unbuffered.        *)
(***************************************************************************)
pipeReadLine ==
    /\ pipeG.st = "read"
    /\ pc # "exited"
    /\ \E l \in Lines : pipeG' = [st |-> "sendLine", line |-> l, err |-> ""]
    /\ UNCHANGED <<gcvars, avars, fvars, ovars, pc, newIRC, newPipe, ircReady, txbuf, irc,
                   pipe, rempname, fifo, ret, gen, out>>

\* the goroutine closing p.r without waiting for its send on p.e
pipeReadErr_closes ==
    /\ pipeG.st = "read"
    /\ pc # "exited"
    /\ \E e \in PipeErrs : pipeG' = [st |-> "closed", line |-> <<>>, err |-> e]
    /\ UNCHANGED <<gcvars, avars, fvars, ovars, pc, newIRC, newPipe, ircReady, txbuf, irc,
                   pipe, rempname, fifo, ret, gen, out>>

\* r.ReadLine() returns an error: the goroutine stands at its send on p.e
pipeReadErr ==
    /\ pipeG.st = "read"
    /\ pc # "exited"
    /\ \E e \in PipeErrs : pipeG' = [st |-> "sendErr", line |-> <<>>, err |-> e]
    /\ UNCHANGED <<gcvars, avars, fvars, ovars, pc, newIRC, newPipe, ircReady, txbuf, irc,
                   pipe, rempname, fifo, ret, gen, out>>

(***************************************************************************)
(* main: waits for mymain to return or for an interrupt, quits IRC,        *)
(* removes the pipe and exits.                                             *)
(***************************************************************************)
Cleanup ==
    (IF irc.made THEN <<Did("QUIT", <<>>, TRUE)>> ELSE <<>>) \o
    (IF rempname # "" THEN <<Did("Remove", <<>>, TRUE)>> ELSE <<>>)

main_exit ==
    /\ pc = "returned"
    /\ pc' = "exited"
    /\ out' = Cleanup
    /\ UNCHANGED <<gcvars, avars, fvars, ovars, newIRC, newPipe, ircReady, txbuf, irc,
                   pipe, pipeG, rempname, ret, gen>>
    /\ fifo' = IF rempname # "" THEN "none" ELSE fifo

main_interrupt ==
    /\ pc # "exited"
    /\ pc' = "exited"
    /\ ret' = -5
    /\ out' = <<Did("signal", <<>>, TRUE)>> \o Cleanup
    /\ UNCHANGED <<gcvars, avars, fvars, ovars, newIRC, newPipe, ircReady, txbuf, irc,
                   pipe, pipeG, rempname, gen>>
    /\ fifo' = IF rempname # "" THEN "none" ELSE fifo

Next ==
    \/ mymain_config
    \/ mymain_connect
    \/ mymain_pipe
    \/ mymain_txbuf
    \/ handleEvent_pipe
    \/ handleEvent_irc
    \/ pipeReadLine
    \/ pipeReadErr
    \/ main_exit
    \/ main_interrupt

Spec == Init /\ [][Next]_vars

(***************************************************************************)
(* Fairness of the current program: the Go scheduler runs every goroutine  *)
(* that can run, and a select takes a case that is ready again and again.  *)
(* The server, the input source's writers and the operator owe nothing.    *)
(***************************************************************************)
FairSpec ==
    /\ Spec
    /\ WF_vars(mymain_connect)
    /\ WF_vars(mymain_pipe)
    /\ WF_vars(mymain_txbuf)
    /\ SF_vars(handleEvent_pipe)
    /\ WF_vars(main_exit)

(***************************************************************************)
(* Properties of the current program.                                      *)
(***************************************************************************)
\* a PRIVMSG that carries input text
InputPrivmsg(tr) == \E i \in 1..Len(tr) : tr[i].op = "PRIVMSG"

\* C1: no PRIVMSG carrying input text is written while ready is false
C1_NoPrivmsgBeforeReady == InputPrivmsg(out) => ircReady

C1_Witness == InputPrivmsg(out) /\ ircReady /\ gen = 2

\* C2: after a failed PRIVMSG write the whole line is the pending buffer and
\* the process keeps running, on its way to the next connection
C2_FailedSendIsRetried ==
    HasFailed(out, "PRIVMSG") =>
        /\ txbuf = <<out[1].arg>>
        /\ pc = "top"
        /\ newIRC

\* C3: EOF on standard input makes the process exit.  Stated for the case
\* most favourable to the program: the channel is joined and mymain waits in
\* the select when the reader has met EOF
C3_StdinEofExits ==
    (pipe.Pname = "-" /\ pipeG.st = "sendErr" /\ pipeG.err = "EOF"
        /\ ircReady /\ pc = "select")
    ~> (pc = "exited" \/ ~ircReady)

\* C4: a read error of the input source makes mymain open the source again
\* or reconnect.  Stated for the channel joined and mymain in the select
C4_SourceErrorIsRetried ==
    (pipeG.st = "sendErr" /\ ~(pipe.Pname = "-" /\ pipeG.err = "EOF")
        /\ ircReady /\ pc = "select")
    ~> (Has(out, "makePipe") \/ Has(out, "Connect") \/ pc = "exited")

\* a failure of the Transport seen by the last step
TransportFailed(tr) ==
    \/ HasFailed(tr, "Connect")
    \/ HasFailed(tr, "PRIVMSG")
    \/ HasFailed(tr, "Handshake")
    \/ HasFailed(tr, "recv_irc")

\* C5: a Transport failure never ends the process: mymain goes on to a new
\* connection attempt
C5_TransportFailureReconnects ==
    TransportFailed(out) => (pc = "top" /\ newIRC)

\* C6: when mymain is about to connect again, the last thing it did was to
\* sleep gc.wait
C6_WaitBeforeReconnect ==
    (pc = "top" /\ newIRC /\ irc.made) =>
        (out # <<>> /\ out[Len(out)].op = "sleep_wait")

\* C7: ready is false after every connection attempt and becomes true only
\* in a step that received a 353 line
C7_ReadyOnlyOnJoined ==
    /\ [](Has(out, "Connect") => ~ircReady)
    /\ [][(~ircReady /\ ircReady') =>
            (out'[1].op = "recv_irc" /\ out'[1].arg = <<"353">>)]_vars

C7_Witness == ircReady /\ gen = 2 /\ Has(out, "recv_irc")

\* C9: a failed write of the re-handshake after a 433 ends the generation
\* and mymain goes on to reconnect
C9_FailedRehandshakeReconnects ==
    HasFailed(out, "Handshake") => (pc = "top" /\ newIRC)

(***************************************************************************)
(* The earlier program (src/ircstatus.go.old).  Every generation has its   *)
(* own openssl process, writer, done signal, ready channel and death       *)
(* channel dc; gc.nick, gc.txbuf and gc.rbuf are shared by all.            *)
(***************************************************************************)
\* one item of o_out: who did what on the Transport of generation g
ODid(g, who, op, arg, ok) ==
    [g |-> g, who |-> who, op |-> op, arg |-> arg, ok |-> ok]

OSleep(who, d) == ODid(0, who, d, <<>>, TRUE)

\* a write on the writer of generation g succeeds while openssl runs
WriteOk(g) == o_proc[g] = "running"

\* gc.onick, the nick without numbers
Onick == <<>>

\* what setNick does, in order: it sets the nick, writes NICK, and then
\* writes USER, the identify PRIVMSG when configured, JOIN and a NICK
\* without argument.  Other goroutines run between the three steps
SetNickScript ==
    << <<"set">>, <<"NICK">>,
       <<"USER">> \o (IF gc_ident THEN <<"IDENTIFY">> ELSE <<>>) \o
       <<"JOIN", "NICK_">> >>

\* the nick numbered only when -nums asks for it
NewNick_numsOnly(n, r) == IF gc_nums THEN Append(Onick, r) ELSE o_nick

\* setNick: the nick it sets; n overrides gc.nums, r is rand.Int63()
NewNick(n, r) == IF gc_nums \/ n THEN Append(Onick, r) ELSE o_nick

\* a string of which the pointer comes from one write and the length from
\* another: what gc.nick can hold, or be read as, when it is written while
\* another goroutine writes or reads it
Torn == <<"torn">>

\* another execution of setNick is about to write gc.nick
OtherWriter(who, g) ==
    \/ who # "mymain" /\ o_pc = "setNick" /\ o_hs = <<>> /\ gc_nums
    \/ \E h \in Gens :
         /\ who = "mymain" \/ h # g
         /\ o_rd[h].pc = "setNick" /\ o_rd[h].hs = <<>>

\* whether the next step of setNick(n, w) can tear gc.nick: its write of
\* gc.nick, or its read of it for the NICK line, while another execution
\* writes it
Tears(n, hs, g, who) ==
    IF /\ OtherWriter(who, g)
       /\ \/ hs = <<>> /\ (gc_nums \/ n)
          \/ Len(hs) = 1
    THEN BOOLEAN ELSE {FALSE}

\* setNick that goes on writing after a write has failed
SetNickStep_goesOn(n, hs, g, who, r, d, t) ==
    LET k == Len(hs) + 1
        cmds == SetNickScript[k]
        arg(c) == IF c = "NICK" THEN (IF t THEN Torn ELSE o_nick) ELSE <<>>
        ok == d = Len(cmds)
    IN  IF k = 1
        THEN [hs |-> hs \o cmds,
              nick |-> IF t THEN Torn ELSE NewNick(n, r),
              res |-> "more",
              out |-> <<>>,
              proc |-> o_proc[g]]
        ELSE [hs |-> IF ok THEN hs \o cmds ELSE hs,
              nick |-> o_nick,
              res |-> IF ~ok THEN "false"
                      ELSE IF k = Len(SetNickScript) THEN "true"
                      ELSE "more",
              out |-> [i \in 1..Len(cmds) |->
                         ODid(g, who, cmds[i], arg(cmds[i]), i <= d)],
              proc |-> IF ok THEN o_proc[g] ELSE "dead"]

\* how many writes of the next step of setNick succeed: all of them, or
\* some and then openssl exits; none once openssl is dead
Written(g, hs) ==
    IF WriteOk(g) THEN 1..Len(SetNickScript[Len(hs) + 1]) ELSE {0}

\* one step of setNick(n, w) on the writer of generation g, after the
\* steps hs, of which d writes succeed: the steps done then, the nick,
\* whether setNick goes on ("more") or returns ("true", "false" at the
\* first write that fails), and the openssl process
SetNickStep(n, hs, g, who, r, d, t) ==
    LET k == Len(hs) + 1
        cmds == SetNickScript[k]
        arg(c) == IF c = "NICK" THEN (IF t THEN Torn ELSE o_nick) ELSE <<>>
        ok == d = Len(cmds)
    IN  IF k = 1
        THEN [hs |-> hs \o cmds,
              nick |-> IF t THEN Torn ELSE NewNick(n, r),
              res |-> "more",
              out |-> <<>>,
              proc |-> o_proc[g]]
        ELSE [hs |-> IF ok THEN hs \o cmds ELSE hs,
              nick |-> o_nick,
              res |-> IF ~ok THEN "false"
                      ELSE IF k = Len(SetNickScript) THEN "true"
                      ELSE "more",
              out |-> [i \in 1..(IF ok THEN d ELSE d + 1) |->
                         ODid(g, who, cmds[i], arg(cmds[i]), i <= d)],
              proc |-> IF ok THEN o_proc[g] ELSE "dead"]

Rands == {ToString(r) : r \in 1..MaxRand}

(***************************************************************************)
(* mymain of the earlier program.                                          *)
(***************************************************************************)
\* how "Open the pipe" ends: with the pipe open, or at one of its returns
OpenResults ==
    {"ok", "mkfifo", "openflush", "flushread", "flushclose", "openrw",
     "notpipe"}

\* the value mymain returns from "Open the pipe"
PipeRet(r) == CASE r = "mkfifo" -> -3
                [] r = "openflush" -> -6
                [] r = "flushread" -> -7
                [] r = "flushclose" -> -8
                [] r = "openrw" -> -1
                [] r = "notpipe" -> -2
                [] OTHER -> 0

\* defer os.Remove(pname), run when mymain returns
DeferredRemove(made) ==
    IF made THEN <<ODid(0, "mymain", "Remove", <<>>, TRUE)>> ELSE <<>>

\* "Open the pipe": stdin, or a fifo that is made when nothing is there,
\* flushed when -flush asks for it, and opened; there is what os.Stat finds
old_mymain_pipe ==
    /\ o_pc = "pipe"
    /\ IF gc_pipe = "-"
       THEN /\ o_pc' = "start"
            /\ o_out' = <<>>
            /\ UNCHANGED <<o_fifo, o_ret>>
       ELSE \E there \in {"no", "fifo", "other"}, r \in OpenResults :
              /\ r = "mkfifo" => there = "no"
              /\ r = "notpipe" <=> there = "other"
              /\ LET made == there = "no" /\ r # "mkfifo"
                     tried == CASE r = "ok" -> "OpenFile"
                                [] r = "openrw" -> "OpenFile"
                                [] r = "notpipe" -> "Stat"
                                [] r = "mkfifo" -> "Mkfifo"
                                [] OTHER -> "flush"
                 IN  /\ o_out' =
                          (IF made
                           THEN <<ODid(0, "mymain", "Mkfifo", <<>>, TRUE)>>
                           ELSE <<>>) \o
                          <<ODid(0, "mymain", tried, <<r>>, r = "ok")>> \o
                          DeferredRemove(made /\ r # "ok")
                     /\ o_fifo' = IF made /\ r = "ok" THEN "made" ELSE "none"
                     /\ o_pc' = IF r = "ok" THEN "start" ELSE "exited"
                     /\ o_ret' = PipeRet(r)
    /\ UNCHANGED <<gcvars, avars, fvars, nvars, o_hs, o_i, o_gen, o_proc, o_done,
                   o_ready, o_rd, o_sn, o_wt, o_txbuf, o_nick, o_rbuf, o_rp>>

\* cmd.Start(), then the three goroutines of the generation
old_mymain_start ==
    /\ o_pc = "start"
    /\ o_gen < MaxGenOld
    /\ \E ok \in BOOLEAN :
         IF ok
         THEN LET g == o_gen + 1
              IN  /\ o_gen' = g
                  /\ o_proc' = [o_proc EXCEPT ![g] = "running"]
                  /\ o_rd' = [o_rd EXCEPT ![g] = Worker("select", 0, <<>>)]
                  /\ o_sn' = [o_sn EXCEPT ![g] = Worker("waitReady", 0, <<>>)]
                  /\ o_wt' = [o_wt EXCEPT ![g] = Worker("wait", 0, <<>>)]
                  /\ o_pc' = "setNick"
                  /\ o_hs' = <<>>
                  /\ o_out' = <<ODid(g, "mymain", "Start", <<>>, TRUE)>>
         ELSE /\ o_out' = <<ODid(0, "mymain", "Start", <<>>, FALSE),
                            OSleep("mymain", "sleep_wait")>>
              /\ UNCHANGED <<o_gen, o_proc, o_rd, o_sn, o_wt, o_pc, o_hs>>
    /\ UNCHANGED <<gcvars, avars, fvars, nvars, o_fifo, o_i, o_ret, o_done, o_ready, o_txbuf,
                   o_nick, o_rbuf, o_rp>>

\* setNick(false, w), one step; when it fails mymain sleeps and starts the
\* loop again
old_mymain_setNick ==
    /\ o_pc = "setNick"
    /\ \E r \in Rands, d \in Written(o_gen, o_hs),
          t \in Tears(FALSE, o_hs, o_gen, "mymain") :
         LET s == SetNickStep(FALSE, o_hs, o_gen, "mymain", r, d, t)
         IN  /\ o_nick' = s.nick
             /\ o_proc' = [o_proc EXCEPT ![o_gen] = s.proc]
             /\ o_hs' = IF s.res = "more" THEN s.hs ELSE <<>>
             /\ o_pc' = CASE s.res = "more" -> "setNick"
                          [] s.res = "true" -> "wait"
                          [] OTHER -> "start"
             /\ o_i' = 0
             /\ o_out' = IF s.res = "false"
                         THEN s.out \o <<OSleep("mymain", "sleep_wait")>>
                         ELSE s.out
    /\ UNCHANGED <<gcvars, avars, fvars, nvars, o_fifo, o_gen, o_ret, o_done, o_ready,
                   o_rd, o_sn, o_wt, o_txbuf, o_rbuf, o_rp>>

\* n := <-dc in "Wait for goroutines to end": -1 ends the program, the
\* third report ends the generation
Received(n) ==
    IF n = -1
    THEN /\ o_pc' = "exited"
         /\ o_ret' = -4
         /\ o_out' = DeferredRemove(o_fifo = "made")
         /\ o_fifo' = "none"
         /\ UNCHANGED o_i
    ELSE /\ o_i' = o_i + 1
         /\ UNCHANGED o_fifo
         /\ o_pc' = IF o_i + 1 = 3 THEN "start" ELSE "wait"
         /\ o_out' = IF o_i + 1 = 3
                     THEN <<OSleep("mymain", "sleep_wait")>> ELSE <<>>
         /\ UNCHANGED o_ret

\* where a goroutine goes on after its send on dc: the send closure of
\* sender returns into sender, every other send is followed by return
AfterReport(w) ==
    IF w.pc = "report_send" THEN [w EXCEPT !.pc = "loop"]
    ELSE [w EXCEPT !.pc = "exit"]

Reporting(w) == w.pc \in {"report", "report_send"}

old_mymain_wait ==
    /\ o_pc = "wait"
    /\ \/ /\ Reporting(o_rd[o_gen])
          /\ Received(o_rd[o_gen].n)
          /\ o_rd' = [o_rd EXCEPT ![o_gen] = AfterReport(@)]
          /\ UNCHANGED <<o_sn, o_wt>>
       \/ /\ Reporting(o_sn[o_gen])
          /\ Received(o_sn[o_gen].n)
          /\ o_sn' = [o_sn EXCEPT ![o_gen] = AfterReport(@)]
          /\ UNCHANGED <<o_rd, o_wt>>
       \/ /\ Reporting(o_wt[o_gen])
          /\ Received(o_wt[o_gen].n)
          /\ o_wt' = [o_wt EXCEPT ![o_gen] = AfterReport(@)]
          /\ UNCHANGED <<o_rd, o_sn>>
    /\ UNCHANGED <<gcvars, avars, fvars, nvars, o_hs, o_gen, o_proc, o_done, o_ready,
                   o_txbuf, o_nick, o_rbuf, o_rp>>

(***************************************************************************)
(* reader of the earlier program.  Its inner goroutine hands over the      *)
(* lines of the server and closes c when the read fails, which is when     *)
(* openssl is dead.                                                        *)
(***************************************************************************)
\* the token of a PING line, l[5:]
PingToken(l) == "token"

\* reply := fmt.Sprintf("PONG ", l[5:]); w.PrintfLine(reply): the format
\* has no verb, so Sprintf appends the operand as %!(EXTRA string=...), and
\* PrintfLine reads that text as a format once more
PongReply(l) ==
    <<"PONG ", "%!!(MISSING)(EXTRA string=", PingToken(l), ")">>

\* the switch of reader on a received line
ReaderHandle(g, l) ==
    LET recv == ODid(g, "reader", "recv", <<l>>, TRUE)
    IN  CASE l = "PING" ->
               /\ o_out' = <<recv, ODid(g, "reader", "PONG", PongReply(l),
                                       WriteOk(g))>>
               /\ UNCHANGED <<o_rd, o_ready, o_pc, o_ret>>
          [] NickInUse(l) ->
               /\ o_rd' = [o_rd EXCEPT ![g] = Worker("setNick", 0, <<>>)]
               /\ o_out' = <<recv>>
               /\ UNCHANGED <<o_ready, o_pc, o_ret>>
          [] ChannelJoined(l) ->
               \* close(ready); closing a closed channel panics
               /\ o_out' = <<recv>>
               /\ IF o_ready[g] = "closed"
                  THEN /\ o_pc' = "exited"
                       /\ o_ret' = 2
                       /\ UNCHANGED o_ready
                  ELSE /\ o_ready' = [o_ready EXCEPT ![g] = "closed"]
                       /\ UNCHANGED <<o_pc, o_ret>>
               /\ UNCHANGED o_rd
          [] OTHER ->
               /\ o_out' = <<recv>>
               /\ UNCHANGED <<o_rd, o_ready, o_pc, o_ret>>

\* the select of reader: done, a line, or c closed
old_reader(g) ==
    /\ o_pc # "exited"
    /\ o_rd[g].pc = "select"
    /\ \/ /\ o_done[g]
          /\ o_rd' = [o_rd EXCEPT ![g].pc = "report", ![g].n = 0]
          /\ o_out' = <<>>
          /\ UNCHANGED <<o_done, o_ready, o_pc, o_ret>>
       \/ /\ o_proc[g] = "dead"
          /\ o_done' = [o_done EXCEPT ![g] = TRUE]
          /\ o_rd' = [o_rd EXCEPT ![g].pc = "report", ![g].n = 0]
          /\ o_out' = <<ODid(g, "reader", "recv", <<"closed">>, FALSE)>>
          /\ UNCHANGED <<o_ready, o_pc, o_ret>>
       \/ /\ o_proc[g] = "running"
          /\ \E l \in ServerLines : ReaderHandle(g, l)
          /\ UNCHANGED o_done
    /\ UNCHANGED <<gcvars, avars, fvars, nvars, o_fifo, o_hs, o_i, o_gen, o_proc, o_sn, o_wt,
                   o_txbuf, o_nick, o_rbuf, o_rp>>

\* setNick(true, w) of reader after a 433, one step; when it fails reader
\* signals done and reports
old_reader_setNick(g) ==
    /\ o_pc # "exited"
    /\ o_rd[g].pc = "setNick"
    /\ \E r \in Rands, d \in Written(g, o_rd[g].hs),
          t \in Tears(TRUE, o_rd[g].hs, g, "reader") :
         LET s == SetNickStep(TRUE, o_rd[g].hs, g, "reader", r, d, t)
         IN  /\ o_nick' = s.nick
             /\ o_proc' = [o_proc EXCEPT ![g] = s.proc]
             /\ o_rd' = [o_rd EXCEPT ![g] =
                           Worker(CASE s.res = "more" -> "setNick"
                                    [] s.res = "true" -> "select"
                                    [] OTHER -> "report", 0,
                                  IF s.res = "more" THEN s.hs ELSE <<>>)]
             /\ o_done' = IF s.res = "false"
                          THEN [o_done EXCEPT ![g] = TRUE] ELSE o_done
             /\ o_out' = s.out
    /\ UNCHANGED <<gcvars, avars, fvars, nvars, o_fifo, o_pc, o_hs, o_i, o_gen, o_ret,
                   o_ready, o_sn, o_wt, o_txbuf, o_rbuf, o_rp>>

(***************************************************************************)
(* sender of the earlier program.                                          *)
(***************************************************************************)
\* "Wait for writing to be allowable or the signal to return", and then
\* "First try to send the txbuf now that we can send": the send closure.
\* When its write fails it signals done and sends on dc, and then returns
\* into sender, which goes on to its loop
old_sender_ready(g) ==
    /\ o_pc # "exited"
    /\ o_sn[g].pc = "waitReady"
    /\ \/ /\ o_done[g]
          /\ o_sn' = [o_sn EXCEPT ![g].pc = "report", ![g].n = 0]
          /\ o_out' = <<>>
          /\ UNCHANGED <<o_done, o_txbuf>>
       \/ /\ o_ready[g] = "closed"
          /\ IF o_txbuf # <<>>
             THEN /\ o_out' = <<ODid(g, "sender", "PRIVMSG", o_txbuf[1],
                                     WriteOk(g))>>
                  /\ IF WriteOk(g)
                     THEN /\ o_txbuf' = <<>>
                          /\ o_sn' = [o_sn EXCEPT ![g].pc = "loop",
                                                  ![g].hs = <<"PRIVMSG">>]
                          /\ UNCHANGED o_done
                     ELSE /\ o_done' = [o_done EXCEPT ![g] = TRUE]
                          /\ o_sn' = [o_sn EXCEPT ![g].pc = "report_send",
                                                  ![g].n = 0]
                          /\ UNCHANGED o_txbuf
             ELSE /\ o_sn' = [o_sn EXCEPT ![g].pc = "loop"]
                  /\ o_out' = <<>>
                  /\ UNCHANGED <<o_done, o_txbuf>>
    /\ UNCHANGED <<gcvars, avars, fvars, nvars, o_fifo, o_pc, o_hs, o_i, o_gen, o_ret, o_proc,
                   o_ready, o_rd, o_wt, o_nick, o_rbuf, o_rp>>

\* strings.TrimRightFunc(line, unicode.IsSpace)
RECURSIVE TrimRight(_)
TrimRight(s) ==
    IF s # <<>> /\ s[Len(s)] = " " THEN TrimRight(SubSeq(s, 1, Len(s) - 1))
    ELSE s

\* the select of the loop of sender: a line of gc.rbuf, gc.rbuf closed, or
\* done
old_sender_loop(g) ==
    /\ o_pc # "exited"
    /\ o_sn[g].pc = "loop"
    /\ \/ /\ o_rbuf # <<>>
          /\ LET line == TrimRight(o_rbuf[1])
             IN  /\ o_rbuf' = <<>>
                 /\ o_out' = <<ODid(g, "sender", "PRIVMSG", line,
                                    WriteOk(g))>> \o
                             (IF WriteOk(g)
                              THEN <<OSleep("sender", "sleep_senddelay")>>
                              ELSE <<>>)
                 /\ IF WriteOk(g)
                    THEN /\ o_txbuf' = <<>>
                         /\ o_sn' = [o_sn EXCEPT ![g].hs = <<>>]
                         /\ UNCHANGED o_done
                    ELSE /\ o_txbuf' = <<line>>
                         /\ o_done' = [o_done EXCEPT ![g] = TRUE]
                         /\ o_sn' = [o_sn EXCEPT ![g].pc = "report",
                                                 ![g].n = 0]
       \/ /\ o_rbuf = <<>>
          /\ o_rp.st = "closed"
          /\ o_done' = [o_done EXCEPT ![g] = TRUE]
          /\ o_sn' = [o_sn EXCEPT ![g].pc = "report", ![g].n = -1]
          /\ o_out' = <<>>
          /\ UNCHANGED <<o_rbuf, o_txbuf>>
       \/ /\ o_done[g]
          /\ o_sn' = [o_sn EXCEPT ![g].pc = "report", ![g].n = 0]
          /\ o_out' = <<>>
          /\ UNCHANGED <<o_rbuf, o_txbuf, o_done>>
    /\ UNCHANGED <<gcvars, avars, fvars, nvars, o_fifo, o_pc, o_hs, o_i, o_gen, o_ret, o_proc,
                   o_ready, o_rd, o_wt, o_nick, o_rp>>

(***************************************************************************)
(* waiter, readPipe and openssl.                                           *)
(***************************************************************************)
\* the select of waiter: openssl died, or done: kill openssl
old_waiter(g) ==
    /\ o_pc # "exited"
    /\ o_wt[g].pc = "wait"
    /\ \/ /\ o_proc[g] = "dead"
          /\ o_done' = [o_done EXCEPT ![g] = TRUE]
          /\ o_out' = <<>>
          /\ UNCHANGED o_proc
       \/ /\ o_done[g]
          /\ o_proc' = [o_proc EXCEPT ![g] = "dead"]
          /\ o_out' = <<ODid(g, "waiter", "Kill", <<>>, TRUE)>>
          /\ UNCHANGED o_done
    /\ o_wt' = [o_wt EXCEPT ![g].pc = "report", ![g].n = 0]
    /\ UNCHANGED <<gcvars, avars, fvars, nvars, o_fifo, o_pc, o_hs, o_i, o_gen, o_ret, o_ready,
                   o_rd, o_sn, o_txbuf, o_nick, o_rbuf, o_rp>>

\* readPipe: r.ReadLine() and c <- l, which waits for room in the buffer;
\* on an error it closes c
old_readPipe ==
    /\ o_pc # "exited"
    /\ o_rp.st = "read"
    /\ \/ /\ o_rbuf = <<>>
          /\ \E l \in OldLines : o_rbuf' = <<l>>
          /\ UNCHANGED o_rp
       \/ /\ o_rp' = [o_rp EXCEPT !.st = "closed"]
          /\ UNCHANGED o_rbuf
    /\ UNCHANGED <<gcvars, avars, fvars, nvars, o_fifo, o_pc, o_hs, o_i, o_gen, o_ret, o_proc,
                   o_done, o_ready, o_rd, o_sn, o_wt, o_txbuf, o_nick,
                   o_out>>

\* openssl exits by itself: the connection is lost
old_openssl_exit(g) ==
    /\ o_pc # "exited"
    /\ o_proc[g] = "running"
    /\ o_proc' = [o_proc EXCEPT ![g] = "dead"]
    /\ UNCHANGED <<gcvars, avars, fvars, nvars, o_fifo, o_pc, o_hs, o_i, o_gen, o_ret, o_done,
                   o_ready, o_rd, o_sn, o_wt, o_txbuf, o_nick, o_rbuf,
                   o_rp, o_out>>

NextOld ==
    \/ old_mymain_start
    \/ old_mymain_setNick
    \/ old_mymain_wait
    \/ old_readPipe
    \/ \E g \in Gens :
         \/ old_reader(g)
         \/ old_reader_setNick(g)
         \/ old_sender_ready(g)
         \/ old_sender_loop(g)
         \/ old_waiter(g)
         \/ old_openssl_exit(g)

\* the earlier program with its pipe open: it reads every kind of pipe the
\* same way, one value of -pipe stands for all
InitOld == Init /\ gc_pipe = "path"

\* the earlier program from "Open the pipe" on, under every setting of the
\* flags
InitOldFirst ==
    /\ InitMain
    /\ o_pc = "pipe"
    /\ a_pc = "idle"
    /\ a_s = <<>>
    /\ a_l = MaxPayload
    /\ a_o = <<>>
    /\ a_sent = <<>>
    /\ FlushIdle

\* the earlier program without -nums and with the identify flags
InitOldPlain == InitOld /\ ~gc_nums /\ gc_ident

\* the earlier program through its connection attempts, reconnecting
SpecOld == InitOldPlain /\ [][NextOld]_vars

\* the first connection attempt only
NextOldFirst ==
    \/ old_mymain_pipe
    \/ o_gen = 0 /\ old_mymain_start
    \/ old_mymain_setNick
    \/ old_mymain_wait
    \/ old_readPipe
    \/ \E g \in Gens :
         \/ old_reader(g)
         \/ old_reader_setNick(g)
         \/ old_sender_ready(g)
         \/ old_sender_loop(g)
         \/ old_waiter(g)
         \/ old_openssl_exit(g)

\* the first connection attempt of the earlier program under every setting
\* of -nums and of the identify flags
SpecOldFirst == InitOldFirst /\ [][NextOldFirst]_vars

(***************************************************************************)
(* Claims about the earlier program.                                       *)
(***************************************************************************)
Ops(tr) == [i \in 1..Len(tr) |-> tr[i].op]

IsPrefix(p, q) == Len(p) <= Len(q) /\ SubSeq(q, 1, Len(p)) = p

\* NICK, USER, identify when configured, JOIN
FullHandshake ==
    <<"NICK", "USER">> \o (IF gc_ident THEN <<"IDENTIFY">> ELSE <<>>) \o
    <<"JOIN">>

\* a step of the reader of generation g inside setNick
ReaderSetNickStep(g) == o_rd[g].pc = "setNick" /\ o_rd'[g] # o_rd[g]

\* C8: every 433 line makes the reader run the handshake once, whatever
\* -nums says: the first step of it sets the nick to the base nick and a
\* random suffix, every write of it is on the Transport of the reader's
\* generation, the NICK carries the nick, and when it has run to its end it
\* has written NICK, USER, the identify when configured, and JOIN, in this
\* order, and the reader waits for the next line, with no count of the
\* collisions kept
C8_CollisionRehandshakes ==
    [][\A g \in Gens :
        /\ (o_rd[g].pc = "select" /\ Has(o_out', "recv")
              /\ o_out'[1].g = g /\ o_out'[1].arg = <<"433">>)
           => o_rd'[g] = Worker("setNick", 0, <<>>)
        /\ (ReaderSetNickStep(g) /\ o_rd[g].hs = <<>>)
           => /\ \E r \in Rands : o_nick' = Append(Onick, r)
              /\ o_rd'[g].pc = "setNick"
        /\ (ReaderSetNickStep(g) /\ o_rd[g].hs # <<>>)
           => /\ \A i \in 1..Len(o_out') :
                   /\ o_out'[i].g = g
                   /\ o_out'[i].who = "reader"
                   /\ o_out'[i].op = "NICK" => o_out'[i].arg = o_nick
              /\ o_rd'[g].pc \in {"setNick", "select", "report"}
              /\ o_rd'[g].pc = "report"
                   <=> \E i \in 1..Len(o_out') : ~o_out'[i].ok
        /\ (ReaderSetNickStep(g) /\ o_rd'[g].pc = "select")
           => /\ IsPrefix(FullHandshake, Tail(o_rd[g].hs) \o Ops(o_out'))
              /\ o_rd'[g] = Worker("select", 0, <<>>)
    ]_vars

\* a reader has answered a 433 with the whole handshake although -nums
\* was not given
C8_Witness ==
    \E g \in Gens :
        /\ ~gc_nums
        /\ o_rd[g].pc = "select"
        /\ Len(o_nick) = 1
        /\ o_out # <<>>
        /\ o_out[Len(o_out)] = ODid(g, "reader", "NICK_", <<>>, TRUE)

WorkersGone(g) ==
    o_rd[g].pc = "exit" /\ o_sn[g].pc = "exit" /\ o_wt[g].pc = "exit"

\* C10: when mymain has started a connection attempt, the reader, the
\* sender and the waiter of every earlier attempt have returned
C10_NoWorkerOfEarlierGeneration ==
    (o_pc = "setNick" /\ o_hs = <<>>)
        => \A g \in 1..(o_gen - 1) : WorkersGone(g)

\* the senders that stand in the select of their loop, where a line of
\* gc.rbuf can be received
Receivers == {g \in Gens : o_sn[g].pc = "loop"}

\* C11: at most one sender can receive from gc.rbuf, and a line is taken
\* from gc.rbuf only by the sender of the newest generation
C11_OneConsumer ==
    /\ [](Cardinality(Receivers) <= 1)
    /\ [][(o_rbuf # <<>> /\ o_rbuf' = <<>>)
            => (o_out' # <<>> /\ o_out'[1].who = "sender"
                  /\ o_out'[1].g = o_gen)]_vars

(***************************************************************************)
(* Fairness of the earlier program: the Go scheduler runs every goroutine  *)
(* that can run, and a select whose done case stays ready takes it in the  *)
(* end.  openssl, the server and the writers of the pipe owe nothing.      *)
(***************************************************************************)
FairSpecOld ==
    /\ SpecOld
    /\ WF_vars(old_mymain_start)
    /\ WF_vars(old_mymain_setNick)
    /\ WF_vars(old_mymain_wait)
    /\ \A g \in Gens :
         /\ WF_vars(old_reader(g) /\ o_rd'[g].pc = "report")
         /\ WF_vars(old_reader_setNick(g))
         /\ WF_vars(old_sender_ready(g))
         /\ WF_vars(old_sender_loop(g) /\ o_sn'[g].pc = "report")
         /\ WF_vars(old_waiter(g))

\* C12: once done of a generation is signalled, its reader, its sender and
\* its waiter have in the end all reported on dc and returned (or the
\* process has exited)
C12_DoneStopsWorkers ==
    \A g \in Gens :
        [](o_done[g] => <>(WorkersGone(g) \/ o_pc = "exited"))

\* the goroutines that have begun a setNick and not ended it: 0 is mymain,
\* g the reader of generation g
InSetNick ==
    (IF o_pc = "setNick" /\ o_hs # <<>> THEN {0} ELSE {}) \cup
    {g \in Gens : o_rd[g].pc = "setNick" /\ o_rd[g].hs # <<>>}

\* C13: no two executions of setNick are under way at the same time
C13_SetNickNeverOverlaps == Cardinality(InSetNick) <= 1

\* C14: an interrupt writes QUIT when there is an IRC connection object,
\* and removes the pipe at the nick-derived path when the process has
\* created it
C14_InterruptCleansUp ==
    [][Has(out', "signal") =>
          /\ pc' = "exited"
          /\ irc.made => Has(out', "QUIT")
          /\ fifo = "made" => (Has(out', "Remove") /\ fifo' = "none")]_vars

\* C15: a makePipe that fails before the source was ever open ends the
\* process with a status other than 0; one that fails later makes mymain
\* sleep gc.wait and try again.  The goroutine of makePipe exists from the
\* first makePipe that succeeds
C15_PipeFailureAtStartupIsFatal ==
    HasFailed(out, "makePipe") =>
        IF pipeG.st = "none"
        THEN pc \in {"returned", "exited"} /\ ret # 0
        ELSE pc = "top" /\ newPipe /\ out[Len(out)].op = "sleep_wait"

\* the connection is no longer ready, or the process has ended
ConnectionDown == ~ircReady \/ pc \in {"returned", "exited"}

\* the last step took line l from the source and wrote all of it
Delivered(l) ==
    /\ out # <<>>
    /\ out[1] = Did("recv_pipe", l, TRUE)
    /\ Has(out, "PRIVMSG")
    /\ ~HasFailed(out, "PRIVMSG")

\* C16: while the connection is ready and stays up, a line the goroutine of
\* makePipe has read is in the end written as PRIVMSGs, and the lines are
\* written in the order they were read: every PRIVMSG written from the
\* select carries the line the goroutine is offering then
C16_LinesAreDelivered ==
    /\ \A l \in Lines :
         (pipeG.st = "sendLine" /\ pipeG.line = l /\ ircReady)
             ~> (Delivered(l) \/ ConnectionDown)
    /\ [][(pc = "select" /\ Has(out', "PRIVMSG"))
            => (pipeG.st = "sendLine"
                  /\ out'[1] = Did("recv_pipe", pipeG.line, TRUE))]_vars

\* the line of three runes has been written, in two PRIVMSGs
C16_Witness ==
    /\ Delivered(<<"a", "e2", "b">>)
    /\ ircReady
    /\ pc = "top"

\* C17: a sender that writes a PRIVMSG of input text has slept the send
\* delay since the PRIVMSG it wrote before on the same connection
C17_DelayBetweenPrivmsgs ==
    [][\A g \in Gens :
         (/\ old_sender_ready(g) \/ old_sender_loop(g)
          /\ o_out' # <<>>
          /\ o_out'[1].op = "PRIVMSG")
             => o_sn[g].hs = <<>>]_vars

(***************************************************************************)
(* ArrayOfShortStrings on its own: every string of at most MaxLen          *)
(* characters and every limit from 1 to MaxLimit, and the loop of          *)
(* handleEvent over the slice returned.                                    *)
(***************************************************************************)
MaxLen == 4

MaxLimit == 4

\* the characters of an argument: one, two and three bytes long, and a byte
\* that is no valid UTF-8
InputRunes == {"a", "e2", "w3", "xff"}

Strings == UNION {[1..n -> InputRunes] : n \in 0..MaxLen}

Limits == 1..MaxLimit

InitShort ==
    /\ InitMain
    /\ o_pc = "start"
    /\ gc_pipe = "-" /\ ~gc_nums /\ ~gc_ident
    /\ a_pc = "call"
    /\ a_s \in Strings
    /\ a_l \in Limits
    /\ a_o = <<>>
    /\ a_sent = <<>>
    /\ FlushIdle

\* txarr := ArrayOfShortStrings(l, max)
call_ArrayOfShortStrings ==
    /\ a_pc = "call"
    /\ a_o' = ArrayOfShortStrings(a_s, a_l)
    /\ a_pc' = "returned"
    /\ UNCHANGED <<gcvars, nvars, ovars, fvars, a_s, a_l, a_sent>>

\* for _, m := range txarr
call_SendLoop ==
    /\ a_pc = "returned"
    /\ \E nfail \in 0..Len(a_o) : a_sent' = SendLoop(a_o, 1, nfail)
    /\ a_pc' = "sent"
    /\ UNCHANGED <<gcvars, nvars, ovars, fvars, a_s, a_l, a_o>>

NextShort ==
    \/ call_ArrayOfShortStrings
    \/ call_SendLoop

SpecShort == InitShort /\ [][NextShort]_vars

Returned == a_pc \in {"returned", "sent"}

\* the elements of a slice of strings, one after the other
RECURSIVE Flat(_)
Flat(o) == IF o = <<>> THEN <<>> ELSE Head(o) \o Flat(Tail(o))

\* C18: every element returned is at most l bytes long, the elements hold
\* one whole character for each character of s, in order, and a character
\* of s longer than l bytes is the placeholder "?"
C18_ChunksFit ==
    Returned =>
        /\ \A k \in 1..Len(a_o) : ByteLen(a_o[k]) <= a_l
        /\ Len(Flat(a_o)) = Len(a_s)
        /\ \A i \in 1..Len(a_s) :
             /\ Flat(a_o)[i] \in {a_s[i], ToRunes(a_s)[i], "?"}
             /\ RuneLen(a_s[i]) > a_l => Flat(a_o)[i] = "?"

C18_Witness ==
    /\ a_pc = "returned"
    /\ a_s = <<"a", "w3", "e2">> /\ a_l = 2
    /\ a_o = << <<"a", "?">>, <<"e2">> >>

\* C19: when no character of s is longer than l bytes, the elements
\* returned, one after the other, are s
C19_ConcatenationIsS ==
    (Returned /\ \A i \in 1..Len(a_s) : RuneLen(a_s[i]) <= a_l)
        => Flat(a_o) = a_s

\* s with the placeholder for every character longer than l bytes
Shown(s, l) == [i \in 1..Len(s) |-> IF RuneLen(s[i]) > l THEN "?" ELSE s[i]]

\* the least number of pieces of at most l bytes t can be cut into between
\* characters (no character of t is longer than l)
RECURSIVE MinChunks(_, _)
MinChunks(t, l) ==
    IF ByteLen(t) <= l THEN 1
    ELSE LET rest == {MinChunks(SubSeq(t, j + 1, Len(t)), l) :
                        j \in {k \in 1..Len(t) : ByteLen(SubSeq(t, 1, k)) <= l}}
         IN  1 + CHOOSE m \in rest : \A n \in rest : m <= n

\* C20: the slice returned has the least number of elements s can be cut
\* into between characters under the limit; a string of at most l bytes comes
\* back as one element and is written as one PRIVMSG
C20_FewestChunks ==
    Returned =>
        /\ Len(a_o) = MinChunks(Shown(a_s, a_l), a_l)
        /\ (ByteLen(a_s) <= a_l /\ a_pc = "sent") =>
             /\ a_o = <<a_s>>
             /\ Cardinality({i \in DOMAIN a_sent : a_sent[i].op = "PRIVMSG"}) = 1
             /\ a_sent[1].arg = a_s

\* C21: a reader that receives a PING line writes the one line "PONG "
\* followed by the token of the PING, and leaves the nick, ready and the
\* pending buffer as they are
C21_PingYieldsPong ==
    [][\A g \in Gens :
         (/\ old_reader(g)
          /\ o_out' # <<>>
          /\ o_out'[1] = ODid(g, "reader", "recv", <<"PING">>, TRUE))
             => /\ Len(o_out') = 2
                /\ o_out'[2].op = "PONG"
                /\ o_out'[2].arg = <<"PONG ", PingToken("PING")>>
                /\ UNCHANGED <<o_nick, o_ready, o_txbuf>>]_vars

\* the first connection attempt with the fairness of the Go scheduler
FairSpecOldFirst ==
    /\ SpecOldFirst
    /\ WF_vars(old_mymain_setNick)
    /\ WF_vars(old_mymain_wait)
    /\ \A g \in Gens :
         /\ WF_vars(old_reader(g) /\ o_rd'[g].pc = "report")
         /\ WF_vars(old_reader_setNick(g))
         /\ WF_vars(old_sender_ready(g))
         /\ WF_vars(old_sender_loop(g) /\ o_sn'[g].pc = "report")
         /\ WF_vars(old_waiter(g))

\* the writes of a step, without the sleep that follows a failure
Writes(tr) == SelectSeq(tr, LAMBDA e : e.op # "sleep_wait")

\* what a handshake has tried to write once a step has added tr to hs
Attempted(hs, tr) == (IF hs = <<>> THEN <<>> ELSE Tail(hs)) \o Ops(Writes(tr))

\* a write of tr failed, and it is not the last write of tr
FailedAndWentOn(tr) ==
    \E i \in 1..Len(Writes(tr)) : ~Writes(tr)[i].ok /\ i < Len(Writes(tr))

SomeFailed(tr) == \E i \in 1..Len(tr) : ~tr[i].ok

\* the last step has left a handshake at a write that failed
HandshakeFailed ==
    \E i \in 1..Len(o_out) :
        /\ ~o_out[i].ok
        /\ o_out[i].op \in {"NICK", "USER", "IDENTIFY", "JOIN", "NICK_"}

\* C22: setNick writes NICK, USER, the identify when configured, and JOIN in
\* this order; the first write that fails is its last write, after which
\* mymain sleeps and starts the next connection attempt (a reader signals
\* done), and in the end mymain is at the start of its loop again
C22_HandshakeOrderAndAbort ==
    /\ [][old_mymain_setNick
            => /\ IsPrefix(Attempted(o_hs, o_out'), FullHandshake \o <<"NICK_">>)
               /\ ~FailedAndWentOn(o_out')
               /\ SomeFailed(o_out')
                    => /\ o_pc' = "start"
                       /\ o_out'[Len(o_out')] = OSleep("mymain", "sleep_wait")
               /\ o_pc' = "wait"
                    => IsPrefix(FullHandshake, Attempted(o_hs, o_out'))]_vars
    /\ [][\A g \in Gens : old_reader_setNick(g)
            => /\ IsPrefix(Attempted(o_rd[g].hs, o_out'),
                           FullHandshake \o <<"NICK_">>)
               /\ ~FailedAndWentOn(o_out')
               /\ SomeFailed(o_out')
                    => o_done'[g] /\ o_rd'[g].pc = "report"]_vars
    /\ HandshakeFailed ~> (o_pc \in {"start", "exited"})

C22_Witness ==
    /\ gc_ident
    /\ o_pc = "start"
    /\ o_out = <<ODid(1, "mymain", "USER", <<>>, TRUE),
                 ODid(1, "mymain", "IDENTIFY", <<>>, TRUE),
                 ODid(1, "mymain", "JOIN", <<>>, FALSE),
                 OSleep("mymain", "sleep_wait")>>

\* C23: the nick is the nick without numbers, or that nick followed by one
\* random number
C23_NickIsDerivedFromBase ==
    o_nick = Onick \/ \E r \in Rands : o_nick = Append(Onick, r)

\* C24: mymain removes the pipe only when -pipe is "nick", and only in the
\* step in which it returns
C24_RemoveOnlyNickPipeAtExit ==
    [][((old_mymain_pipe \/ old_mymain_wait) /\ Has(o_out', "Remove"))
         => (gc_pipe = "nick" /\ o_pc' = "exited")]_vars

\* the goroutine of the pipe has met a read error
SourceFailed == pipeG.st \in {"sendErr", "closed"}

\* C25: once the pipe is open, makePipe is called again only after its
\* goroutine has met a read error; every other step, a new connection
\* included, leaves the pipe as it is
C25_ReconnectKeepsLineSource ==
    /\ [][(pipe.open /\ mymain_pipe /\ Has(out', "makePipe"))
            => SourceFailed]_vars
    /\ [][(pipe.open /\ pipe' # pipe)
            => (mymain_pipe /\ SourceFailed)]_vars
    /\ [][mymain_connect => UNCHANGED <<pipe, pipeG, fifo>>]_vars

\* a second connection is ready and mymain has passed "Get a channel for
\* the pipe" without opening the pipe again
C25_Witness ==
    /\ gen = 2 /\ ircReady /\ pipe.open
    /\ pc = "txbuf" /\ out = <<>>

\* the last step met a failure of the startup: flags that cannot be used,
\* or a makePipe that failed before the source was ever open
StartupFailed ==
    \/ HasFailed(out, "config")
    \/ HasFailed(out, "makePipe") /\ pipeG.st = "none"

\* C26: a failure of the startup ends the process with a status other than
\* 0, and two kinds of failure never give the same status
C26_StartupFailuresExitDistinct ==
    /\ StartupFailed => (pc \in {"returned", "exited"} /\ ret # 0)
    /\ HasFailed(out, "config") => ret = ConfigRet(out[1].arg[1])
    /\ \A k1, k2 \in {"port", "password"} :
         k1 # k2 => ConfigRet(k1) # ConfigRet(k2)

\* C27: the step that ends a connection, by asking for a new one or by
\* making mymain return, calls Quit on it, and a new connection is made only
\* when one was asked for
C27_QuitBeforeNewTransport ==
    /\ [][(irc.connected /\ ~newIRC /\ newIRC') => Has(out', "QUIT")]_vars
    /\ [][(irc.connected /\ pc # "returned" /\ pc' = "returned")
            => Has(out', "QUIT")]_vars
    /\ [][(mymain_connect /\ Has(out', "Connect")) => newIRC]_vars

\* irc.C was found closed, Quit was called, and mymain is about to make
\* the next connection
C27_Witness ==
    /\ pc = "top" /\ newIRC /\ irc.connected
    /\ out = ClosedIRC

(***************************************************************************)
(* waiter: what its select does, and its one report on dc.                 *)
(***************************************************************************)
\* the select of waiter has signalled done because openssl had exited, or
\* has killed openssl because done was signalled, and waiter stands at its
\* dc <- 0
C28_WaiterSelect ==
    [][\A g \in Gens : old_waiter(g) =>
          /\ (o_proc[g] = "dead" /\ ~o_done[g]) => o_done'[g]
          /\ (o_done[g] /\ o_proc[g] # "dead")
                => (o_proc'[g] = "dead"
                      /\ o_out' = <<ODid(g, "waiter", "Kill", <<>>, TRUE)>>)
          /\ o_wt'[g] = Worker("report", 0, <<>>)]_vars

\* waiter sends on dc no second time: once returned it stays returned
C28_WaiterReportsAtMostOnce ==
    [][\A g \in Gens : o_wt[g].pc = "exit" => o_wt'[g].pc = "exit"]_vars

\* C28: waiter signals done when openssl exits by itself and kills openssl
\* when done is signalled first; after either it reports on dc once, and
\* mymain receives that report (or the process has exited)
C28_WaiterSignalsKillsReports ==
    /\ C28_WaiterSelect
    /\ C28_WaiterReportsAtMostOnce
    /\ \A g \in Gens :
         (o_wt[g].pc = "report") ~> (o_wt[g].pc = "exit" \/ o_pc = "exited")

(***************************************************************************)
(* flushPipe of src/makepipe.go.  The pipe is a fifo: an open for reading  *)
(* waits for a writer, a read of the empty pipe waits while a writer has   *)
(* it open and gives EOF when none has, and what is in the pipe is gone    *)
(* when the last process closes it.                                        *)
(***************************************************************************)
\* reads' worth of bytes the pipe holds before a write waits
MaxData == 2

\* some process has the pipe open for writing
Writers == f_child \in {"open", "wrote"} \/ f_ext

\* a writer opens the pipe: an os.Open that waits for one goes on
Partner == f_partner \/ f_pc = "opening"

\* what is in the pipe after a close that leaves it open in the processes
\* counted by held
AfterClose(held) == IF held THEN f_data ELSE 0

InitFlush ==
    /\ InitMain
    /\ gc_pipe \in {"nick", "path"} /\ ~gc_nums /\ gc_ident
    /\ o_pc = "start"
    /\ a_pc = "idle" /\ a_s = <<>> /\ a_l = MaxPayload /\ a_o = <<>>
    /\ a_sent = <<>>
    /\ f_pc = "fork"
    /\ f_child = "none"
    /\ f_ext \in BOOLEAN
    /\ f_partner = FALSE
    /\ f_data \in 0..MaxData
    /\ (f_data > 0 => f_ext)
    /\ f_pn = "none"
    /\ f_out = <<>>

\* "Put data on the pipe in case it's empty": forkSaveHelp starts the
\* pipe-filler, or flushPipe returns the error
flushPipe_fork ==
    /\ f_pc = "fork"
    /\ \/ /\ f_child' = "started"
          /\ f_pc' = "open"
          /\ f_out' = <<"forkSaveHelp", "nil">>
       \/ /\ f_pc' = "returned"
          /\ f_out' = <<"forkSaveHelp", "error">>
          /\ UNCHANGED f_child
    /\ UNCHANGED <<gcvars, avars, nvars, ovars, f_ext, f_partner, f_data, f_pn>>

\* pn, err := os.Open(pname): returns when a writer has the pipe open, waits
\* when none has, or fails
flushPipe_open ==
    /\ f_pc = "open"
    /\ \/ /\ Writers
          /\ f_pn' = "open"
          /\ f_pc' = "loop"
          /\ f_out' = <<"Open", "nil">>
       \/ /\ ~Writers
          /\ f_pc' = "opening"
          /\ f_out' = <<>>
          /\ UNCHANGED f_pn
       \/ /\ f_pc' = "returned"
          /\ f_out' = <<"Open", "error">>
          /\ UNCHANGED f_pn
    /\ UNCHANGED <<gcvars, avars, nvars, ovars, f_child, f_ext, f_partner, f_data>>

\* the os.Open that waited returns once a writer has opened the pipe
flushPipe_opened ==
    /\ f_pc = "opening"
    /\ f_partner
    /\ f_pn' = "open"
    /\ f_pc' = "loop"
    /\ f_out' = <<"Open", "nil">>
    /\ UNCHANGED <<gcvars, avars, nvars, ovars, f_child, f_ext, f_partner, f_data>>

\* one pass of FlushLoop: the read of flushBytes gives nil, io.EOF or an
\* error, or time.After(*gc.wait) comes first
flushPipe_read ==
    /\ f_pc = "loop"
    /\ \/ /\ f_data > 0
          /\ f_data' = f_data - 1
          /\ f_out' = <<"Read", "nil">>
          /\ UNCHANGED f_pc
       \/ /\ f_data = 0 /\ ~Writers
          /\ f_out' = <<"Read", "EOF">>
          /\ f_pc' = "close"
          /\ UNCHANGED f_data
       \/ /\ f_data = 0 /\ Writers
          /\ f_out' = <<"time.After">>
          /\ f_pc' = "close"
          /\ UNCHANGED f_data
       \/ /\ f_out' = <<"Read", "error">>
          /\ f_pc' = "close"
          /\ UNCHANGED f_data
    /\ UNCHANGED <<gcvars, avars, nvars, ovars, f_child, f_ext, f_partner, f_pn>>

\* "Close the pipe", return nil
flushPipe_close ==
    /\ f_pc = "close"
    /\ f_pn' = "closed"
    /\ f_pc' = "returned"
    /\ f_data' = AfterClose(Writers)
    /\ f_out' = <<"Close", "nil">>
    /\ UNCHANGED <<gcvars, avars, nvars, ovars, f_child, f_ext, f_partner>>

\* the pipe-filler, saveHelp: os.Create opens the pipe for reading and
\* writing, which does not wait, or fails
saveHelp_open ==
    /\ f_child = "started"
    /\ \/ /\ f_child' = "open"
          /\ f_partner' = Partner
       \/ /\ f_child' = "exited"
          /\ UNCHANGED f_partner
    /\ UNCHANGED <<gcvars, avars, nvars, ovars, f_pc, f_ext, f_data, f_pn, f_out>>

\* flag.PrintDefaults() writes the help text, when the pipe has room
saveHelp_write ==
    /\ f_child = "open"
    /\ f_data < MaxData
    /\ f_data' = f_data + 1
    /\ f_child' = "wrote"
    /\ UNCHANGED <<gcvars, avars, nvars, ovars, f_pc, f_ext, f_partner, f_pn, f_out>>

\* the pipe-filler returns and its file is closed
saveHelp_exit ==
    /\ f_child = "wrote"
    /\ f_child' = "exited"
    /\ f_data' = AfterClose(f_ext \/ f_pn = "open")
    /\ UNCHANGED <<gcvars, avars, nvars, ovars, f_pc, f_ext, f_partner, f_pn, f_out>>

\* another process opens the pipe for writing, writes to it, closes it
writer_open ==
    /\ ~f_ext
    /\ f_ext' = TRUE
    /\ f_partner' = Partner
    /\ UNCHANGED <<gcvars, avars, nvars, ovars, f_pc, f_child, f_data, f_pn, f_out>>

writer_write ==
    /\ f_ext
    /\ f_data < MaxData
    /\ f_data' = f_data + 1
    /\ UNCHANGED <<gcvars, avars, nvars, ovars, f_pc, f_child, f_ext, f_partner, f_pn,
                   f_out>>

writer_close ==
    /\ f_ext
    /\ f_ext' = FALSE
    /\ f_data' = AfterClose(f_child \in {"open", "wrote"} \/ f_pn = "open")
    /\ UNCHANGED <<gcvars, avars, nvars, ovars, f_pc, f_child, f_partner, f_pn, f_out>>

NextFlush ==
    \/ flushPipe_fork
    \/ flushPipe_open
    \/ flushPipe_opened
    \/ flushPipe_read
    \/ flushPipe_close
    \/ saveHelp_open
    \/ saveHelp_write
    \/ saveHelp_exit
    \/ writer_open
    \/ writer_write
    \/ writer_close

\* one call of flushPipe
SpecFlush == InitFlush /\ [][NextFlush]_vars

\* flushPipe and the pipe-filler go on when they can; the other writers
\* are free
FairSpecFlush ==
    /\ SpecFlush
    /\ WF_vars(flushPipe_fork)
    /\ WF_vars(flushPipe_open)
    /\ WF_vars(flushPipe_opened)
    /\ WF_vars(flushPipe_read)
    /\ WF_vars(flushPipe_close)
    /\ WF_vars(saveHelp_open)
    /\ WF_vars(saveHelp_write)
    /\ WF_vars(saveHelp_exit)

\* FlushLoop is left only on io.EOF, on a read error or on the timer, and the
\* file is closed before flushPipe returns from there
C29_LoopEndsAsSaid ==
    /\ [][(f_pc = "loop" /\ f_pc' # "loop")
            => (f_pc' = "close"
                  /\ f_out' \in {<<"Read", "EOF">>, <<"Read", "error">>,
                                 <<"time.After">>})]_vars
    /\ [][(f_pc = "close" /\ f_pc' # "close")
            => (f_pc' = "returned" /\ f_pn' = "closed")]_vars

\* os.Open in flushPipe returns
C29_OpenReturns == (f_pc = "opening") ~> (f_pc # "opening")

\* FlushLoop ends
C29_LoopEnds == (f_pc = "loop") ~> (f_pc # "loop")

\* C29: a call of flushPipe returns, whatever the other writers of the pipe
\* do; FlushLoop ends on EOF, on a read error or on the timer only, and the
\* file is then closed
C29_FlushPipeTerminates ==
    /\ C29_LoopEndsAsSaid
    /\ (f_pc = "fork") ~> (f_pc = "returned")

(***************************************************************************)
(* The hand-over of a read error by the goroutine of makePipe.             *)
(***************************************************************************)
\* C30: when the goroutine of makePipe has met a read error or EOF, its send
\* on p.e completes and p.r is closed, which is where handleEvent finds the
\* channel closed and receives the error (or the process has exited)
C30_ErrorHandedOver ==
    (pipeG.st = "sendErr") ~> (pipeG.st = "closed" \/ pc = "exited")

(***************************************************************************)
(* The pending buffer, txbuf, and the lines taken from the input source.   *)
(***************************************************************************)
\* handleEvent has taken a line of the input source: when it returns the
\* line has been written whole, chunk by chunk, or it is txbuf; and txbuf
\* is given up only when it is empty
C31_CurrentKeepsLine ==
    /\ [][(handleEvent_pipe /\ pipeG.st = "sendLine") =>
            /\ txbuf = <<>>
            /\ \/ /\ txbuf' = <<>>
                  /\ \A k \in 1..Len(ArrayOfShortStrings(pipeG.line,
                                                         MaxPayload)) :
                       out'[2 * k] =
                         Did("PRIVMSG",
                             ArrayOfShortStrings(pipeG.line, MaxPayload)[k],
                             TRUE)
               \/ txbuf' = <<pipeG.line>>]_vars
    /\ [][txbuf # <<>> => txbuf' = txbuf]_vars

\* a sender of the earlier program has taken a line from gc.rbuf
Took(g) == old_sender_loop(g) /\ o_rbuf # <<>> /\ o_rbuf' = <<>>

\* C31: no line is lost.  A sender that takes a line from gc.rbuf finds
\* gc.txbuf empty, so that no unsent line is overwritten, and after its
\* step the line has been written or is gc.txbuf; and gc.txbuf is emptied
\* only by a write of the line it holds that succeeds
C31_NoLineLost ==
    /\ [][\A g \in Gens : Took(g) =>
            /\ o_txbuf = <<>>
            /\ \/ o_out'[1] = ODid(g, "sender", "PRIVMSG",
                                   TrimRight(o_rbuf[1]), TRUE)
               \/ o_txbuf' = <<TrimRight(o_rbuf[1])>>]_vars
    /\ [][(o_txbuf # <<>> /\ o_txbuf' # o_txbuf) =>
            (/\ o_txbuf' = <<>>
             /\ \E g \in Gens :
                  /\ old_sender_ready(g)
                  /\ o_out' = <<ODid(g, "sender", "PRIVMSG", o_txbuf[1],
                                     TRUE)>>)]_vars

(***************************************************************************)
(* A member-list line (353) on a connection whose channel is joined.       *)
(***************************************************************************)
\* the current program: ircReady stays set and mymain goes on
C32_CurrentJoinedAgain ==
    [][(handleEvent_irc /\ ircReady
          /\ out'[1] = Did("recv_irc", <<"353">>, TRUE))
         => (ircReady' /\ pc' = "top" /\ out' = <<out'[1]>>)]_vars

\* the reader of generation g has received a 353 line with ready closed
JoinedAgain(g) ==
    /\ old_reader(g)
    /\ o_ready[g] = "closed"
    /\ o_out' = <<ODid(g, "reader", "recv", <<"353">>, TRUE)>>

\* C32: a 353 line on a connection that has had one leaves ready as it is,
\* does not end the process and stops no worker
C32_JoinedTwiceIsHarmless ==
    [][\A g \in Gens : JoinedAgain(g) =>
          /\ o_ready'[g] = "closed"
          /\ o_pc' = o_pc
          /\ o_rd' = o_rd /\ o_sn' = o_sn /\ o_wt' = o_wt]_vars

(***************************************************************************)
(* The reports on dc.                                                      *)
(***************************************************************************)
\* mymain has received the report of w
Reported(w, v) == Reporting(w) /\ ~Reporting(v)

\* C33: every worker sends one report on dc: a worker whose report mymain
\* has received has returned, so that the three reports mymain counts are
\* those of the reader, the sender and the waiter
C33_OneReportPerWorker ==
    [][\A g \in Gens :
         /\ Reported(o_rd[g], o_rd'[g]) => o_rd'[g].pc = "exit"
         /\ Reported(o_sn[g], o_sn'[g]) => o_sn'[g].pc = "exit"
         /\ Reported(o_wt[g], o_wt'[g]) => o_wt'[g].pc = "exit"]_vars

(***************************************************************************)
(* The writers of one Transport: mymain, reader and sender share the       *)
(* textproto.Writer of their generation.                                   *)
(***************************************************************************)
\* the commands written to the server
TransportOps == {"NICK", "USER", "IDENTIFY", "JOIN", "NICK_", "PONG", "PRIVMSG"}

\* who has written the NICK of a handshake on the writer of generation g and
\* has the rest of the handshake to write
Handshaking(g) ==
    (IF o_pc = "setNick" /\ o_gen = g /\ Len(o_hs) >= 2
     THEN {"mymain"} ELSE {}) \cup
    (IF o_rd[g].pc = "setNick" /\ Len(o_rd[g].hs) >= 2
     THEN {"reader"} ELSE {})

\* who writes on the writer of generation g in the trace tr
WritersOf(tr, g) ==
    {tr[i].who : i \in {j \in 1..Len(tr) :
                          tr[j].g = g /\ tr[j].op \in TransportOps}}

\* a step of a goroutine that writes to a Transport
WriterStep ==
    \/ old_mymain_setNick
    \/ \E g \in Gens : \/ old_reader(g)
                       \/ old_reader_setNick(g)
                       \/ old_sender_ready(g)
                       \/ old_sender_loop(g)

\* C34: the writes of mymain, reader and sender on one Transport do not
\* overlap: while one of them is between the writes of a handshake, no
\* other writes on that Transport, and no two are within a handshake on it
C34_OneWriterAtATime ==
    /\ [][\A g \in Gens : \A w \in Handshaking(g) :
            WriterStep => WritersOf(o_out', g) \subseteq {w}]_vars
    /\ [](\A g \in Gens : Cardinality(Handshaking(g)) <= 1)

(***************************************************************************)
(* What the PRIVMSGs of the current program carry.                         *)
(***************************************************************************)
\* c is line l, or some characters of l that follow one another
IsPieceOf(c, l) ==
    \/ c = l
    \/ \E a \in 1..Len(l) : \E b \in a..Len(l) : c = SubSeq(l, a, b)

C36_ReadyStays ==
    /\ [][(ircReady /\ ~ircReady')
            => (mymain_connect /\ newIRC /\ Has(out', "Connect"))]_vars
    /\ [][(handleEvent_irc /\ ircReady /\ Has(out', "Handshake"))
            => ircReady']_vars

\* the handshake after a 433 has been written on a joined connection
C36_Witness ==
    /\ ircReady
    /\ pc = "top"
    /\ out = <<Did("recv_irc", <<"433">>, TRUE), Did("Handshake", <<>>, TRUE)>>

(***************************************************************************)
(* What handleEvent leaves alone.                                          *)
(***************************************************************************)
\* C37: handleEvent on a line of the server or on the loss of the
\* connection leaves txbuf as it was and returns newPipe false; on a line
\* of the input source it leaves ircReady as it was
C37_HandleEventFrame ==
    /\ [][handleEvent_irc => (txbuf' = txbuf /\ ~newPipe')]_vars
    /\ [][(handleEvent_pipe /\ pipeG.st = "sendLine")
            => ircReady' = ircReady]_vars

\* the loss of the connection has been handled on a joined connection
\* whose input source is open
C37_Witness ==
    /\ pc = "top"
    /\ out = ClosedIRC
    /\ ircReady
    /\ txbuf = <<>>
    /\ ~newPipe
    /\ pipeG.st = "read"

====
